---- MODULE Spec2Model ----
(***************************************************************************)
(* Model of main.py, the Streamlit "File Content Extractor".               *)
(*                                                                         *)
(* Python str values are TLA+ strings, read character by character with    *)
(* SubSeq; bytes values are sequences of integers 0..255.  A dict is a     *)
(* sequence of <<key, value>> pairs in insertion order, as in Python.      *)
(* The file system is the function disk from absolute paths to entries.    *)
(***************************************************************************)
EXTENDS Integers, Sequences, FiniteSets, TLC

VARIABLES disk, uploaded_files, uploaded_dir, checked, button, dir_files,
          files_to_process, ignore_list, combined_content, final_content,
          created, unlinked, errors, call

vars == <<disk, uploaded_files, uploaded_dir, checked, button, dir_files,
          files_to_process, ignore_list, combined_content, final_content,
          created, unlinked, errors, call>>

(***************************************************************************)
(* Strings                                                                 *)
(***************************************************************************)
\* Printable ASCII in code order: codes 32..95 and 97..126 (a string of the
\* model never holds code 96).
AsciiLow == " !\"#$%&'()*+,-./0123456789:;<=>?@ABCDEFGHIJKLMNOPQRSTUVWXYZ[\\]^_"

AsciiHigh == "abcdefghijklmnopqrstuvwxyz{|}~"

At(s, i) == SubSeq(s, i, i)

\* list(s): the characters of a string
Chars(s) == [i \in 1..Len(s) |-> At(s, i)]

Range(f) == {f[i] : i \in DOMAIN f}

Min(a, b) == IF a < b THEN a ELSE b

\* Code of every character a string of the model can hold
OrdTable ==
    [c \in Range(Chars(AsciiLow)) \cup Range(Chars(AsciiHigh))
              \cup {"\n", "\t", "\r"} |->
        IF c = "\n" THEN 10
        ELSE IF c = "\t" THEN 9
        ELSE IF c = "\r" THEN 13
        ELSE IF \E i \in 1..Len(AsciiLow) : At(AsciiLow, i) = c
             THEN 31 + (CHOOSE i \in 1..Len(AsciiLow) : At(AsciiLow, i) = c)
             ELSE 96 + (CHOOSE i \in 1..Len(AsciiHigh) : At(AsciiHigh, i) = c)]

\* Python's ord() of a one-character string
ord(c) == OrdTable[c]

\* Python's chr() of a code below 128
chr(b) ==
    IF b = 10 THEN "\n"
    ELSE IF b = 9 THEN "\t"
    ELSE IF b = 13 THEN "\r"
    ELSE IF b <= 95 THEN At(AsciiLow, b - 31)
    ELSE At(AsciiHigh, b - 96)

\* str.lower() on one character
lower_char(c) == IF ord(c) \in 65..90 THEN chr(ord(c) + 32) ELSE c

RECURSIVE lower(_)
lower(s) == IF s = "" THEN "" ELSE lower_char(At(s, 1)) \o lower(SubSeq(s, 2, Len(s)))

\* str.startswith
startswith(s, prefix) ==
    Len(prefix) <= Len(s) /\ SubSeq(s, 1, Len(prefix)) = prefix

\* str.__lt__ : comparison by code point, a proper prefix is smaller
RECURSIVE less_from(_, _, _)
less_from(a, b, i) ==
    IF i > Len(b) THEN FALSE
    ELSE IF i > Len(a) THEN TRUE
    ELSE IF a[i] = b[i] THEN less_from(a, b, i + 1)
    ELSE ord(a[i]) < ord(b[i])

StrLess(a, b) == less_from(Chars(a), Chars(b), 1)

\* Largest index of character c in s, 0 when absent (str.rfind + 1)
RECURSIVE rfind(_, _, _)
rfind(s, c, i) ==
    IF i = 0 THEN 0
    ELSE IF At(s, i) = c THEN i
    ELSE rfind(s, c, i - 1)

\* Smallest index >= i of character c in s, 0 when absent
RECURSIVE find(_, _, _)
find(s, c, i) ==
    IF i > Len(s) THEN 0
    ELSE IF At(s, i) = c THEN i
    ELSE find(s, c, i + 1)

\* "sep".join(parts)
RECURSIVE join_str(_, _)
join_str(sep, parts) ==
    IF Len(parts) = 0 THEN ""
    ELSE IF Len(parts) = 1 THEN parts[1]
    ELSE parts[1] \o sep \o join_str(sep, Tail(parts))

(***************************************************************************)
(* fnmatch.fnmatch(name, pat) on POSIX: normcase is the identity, "*"      *)
(* matches any run of characters ("/" included), "?" one character, any    *)
(* other character itself, and the whole name must match.  No pattern of   *)
(* the list uses a bracket expression.                                     *)
(***************************************************************************)
RECURSIVE fnmatch_from(_, _, _, _)
fnmatch_from(name, i, pat, j) ==
    IF j > Len(pat) THEN i > Len(name)
    ELSE IF pat[j] = "*"
         THEN \/ fnmatch_from(name, i, pat, j + 1)
              \/ (i <= Len(name) /\ fnmatch_from(name, i + 1, pat, j))
    ELSE IF i > Len(name) THEN FALSE
    ELSE IF pat[j] = "?" THEN fnmatch_from(name, i + 1, pat, j + 1)
    ELSE pat[j] = name[i] /\ fnmatch_from(name, i + 1, pat, j + 1)

fnmatch(name, pat) == fnmatch_from(Chars(name), 1, Chars(pat), 1)

\* The string literals of lines 26-34, one element per literal
development_patterns == <<
    "env/*", ".env/*", "venv/*", ".venv/*",
    ".gitignore", ".git/*",
    "__pycache__/*", "*.pyc", "*.pyo",
    ".pytest_cache/*", ".coverage",
    ".DS_Store", "Thumbs.db",
    "node_modules/*", ".npm/*",
    ".cache/*", "*.log",
    "*.min", "*.svg", "*.min.css", "*.woff", "*.min.js",
    "*.woff2", "*._.DS_Store", "*.DS_Store", ".DS_Store" >>

\* The string literals of lines 37-45, one element per literal
binary_patterns == <<
    "*.pdf", "*.png", "*.jpg", "*.jpeg", "*.gif", "*.ico",
    "*.zip", "*.tar", "*.gz", "*.rar", "*.7z",
    "*.exe", "*.dll", "*.so", "*.dylib",
    "*.db", "*.sqlite", "*.sqlite3",
    "*.pkl", "*.pickle",
    "*.bin", "*.dat",
    "*.mp3", "*.wav", "*.mp4", "*.avi", "*.mov",
    "*.doc", "*.docx", "*.xls", "*.xlsx", "*.ppt",
    "*.psd", "*.ai" >>

\* The list as Python builds it: no comma follows the last literal of line
\* 34, so it and the first literal of line 37 are one string.
ignore_patterns ==
    SubSeq(development_patterns, 1, Len(development_patterns) - 1)
        \o <<development_patterns[Len(development_patterns)]
                \o binary_patterns[1]>>
        \o Tail(binary_patterns)

\* fnmatch compiles each pattern once and keeps it
compiled_patterns ==
    [k \in 1..Len(ignore_patterns) |-> Chars(ignore_patterns[k])]

should_ignore_path(path) ==
    LET name == Chars(path)
    IN  \E k \in 1..Len(compiled_patterns) :
            fnmatch_from(name, 1, compiled_patterns[k], 1)

(***************************************************************************)
(* mimetypes.guess_type(path)[0]: the type looked up by extension, "" for  *)
(* None.  The tables are those of the standard library, restricted to the  *)
(* extensions the ignore list and the modelled files use.                  *)
(***************************************************************************)
suffix_map == <<
    <<".svgz", ".svg.gz">>, <<".tgz", ".tar.gz">>, <<".taz", ".tar.gz">>,
    <<".tz", ".tar.gz">>, <<".tbz2", ".tar.bz2">>, <<".txz", ".tar.xz">> >>

encodings_map == <<
    <<".gz", "gzip">>, <<".Z", "compress">>, <<".bz2", "bzip2">>,
    <<".xz", "xz">>, <<".br", "br">> >>

types_map == <<
    <<".txt", "text/plain">>, <<".py", "text/x-python">>,
    <<".css", "text/css">>, <<".csv", "text/csv">>, <<".html", "text/html">>,
    <<".json", "application/json">>, <<".svg", "image/svg+xml">>,
    <<".pyc", "application/x-python-code">>,
    <<".pyo", "application/x-python-code">>,
    <<".pdf", "application/pdf">>, <<".png", "image/png">>,
    <<".jpg", "image/jpeg">>, <<".jpeg", "image/jpeg">>,
    <<".gif", "image/gif">>, <<".ico", "image/vnd.microsoft.icon">>,
    <<".zip", "application/zip">>, <<".tar", "application/x-tar">>,
    <<".exe", "application/octet-stream">>,
    <<".dll", "application/octet-stream">>,
    <<".so", "application/octet-stream">>,
    <<".bin", "application/octet-stream">>,
    <<".mp3", "audio/mpeg">>, <<".wav", "audio/x-wav">>,
    <<".mp4", "video/mp4">>, <<".avi", "video/x-msvideo">>,
    <<".mov", "video/quicktime">>, <<".doc", "application/msword">>,
    <<".xls", "application/vnd.ms-excel">>,
    <<".ppt", "application/vnd.ms-powerpoint">>,
    <<".ai", "application/postscript">> >>

HasKey(table, k) == \E i \in 1..Len(table) : table[i][1] = k

Lookup(table, k) == table[CHOOSE i \in 1..Len(table) : table[i][1] = k][2]

\* posixpath.splitext: <<root, ext>>; the extension starts at the last dot
\* of the last segment, leading dots of the segment not counting.
RECURSIVE splitext_scan(_, _, _)
splitext_scan(p, filenameIndex, dotIndex) ==
    IF filenameIndex >= dotIndex THEN <<p, "">>
    ELSE IF At(p, filenameIndex) # "."
         THEN <<SubSeq(p, 1, dotIndex - 1), SubSeq(p, dotIndex, Len(p))>>
    ELSE splitext_scan(p, filenameIndex + 1, dotIndex)

splitext(p) ==
    LET sepIndex == rfind(p, "/", Len(p))
        dotIndex == rfind(p, ".", Len(p))
    IN  IF dotIndex > sepIndex
        THEN splitext_scan(p, sepIndex + 1, dotIndex)
        ELSE <<p, "">>

RECURSIVE guess_suffix(_)
guess_suffix(be) ==
    IF HasKey(suffix_map, lower(be[2]))
    THEN guess_suffix(splitext(be[1] \o Lookup(suffix_map, lower(be[2]))))
    ELSE be

guess_type(url) ==
    LET be0 == guess_suffix(splitext(url))
        be1 == IF HasKey(encodings_map, be0[2]) THEN splitext(be0[1]) ELSE be0
        ext == lower(be1[2])
    IN  IF HasKey(types_map, ext) THEN Lookup(types_map, ext) ELSE ""

(***************************************************************************)
(* The file system.  disk maps each existing absolute path to an entry     *)
(* [kind, data, readable]; open() fails with the OSError of the entry.     *)
(***************************************************************************)
File(data) == [kind |-> "file", data |-> data, readable |-> TRUE]

Locked(data) == [kind |-> "file", data |-> data, readable |-> FALSE]

Dir == [kind |-> "dir", data |-> <<>>, readable |-> TRUE]

\* open(path, ...) followed by read(): the exception raised, "" for none
open_exc(path, d) ==
    IF path \notin DOMAIN d THEN "FileNotFoundError"
    ELSE IF d[path].kind = "dir" THEN "IsADirectoryError"
    ELSE IF ~d[path].readable THEN "PermissionError"
    ELSE ""

\* str(e) of the OSError raised by open(path)
strerror(path, d) ==
    IF open_exc(path, d) = "FileNotFoundError"
    THEN "[Errno 2] No such file or directory: '" \o path \o "'"
    ELSE IF open_exc(path, d) = "IsADirectoryError"
    THEN "[Errno 21] Is a directory: '" \o path \o "'"
    ELSE "[Errno 13] Permission denied: '" \o path \o "'"

ChunkSize == 1024

\* Variant of is_binary_file: line 20 returning False
is_binary_file_except_false(file_path, d) ==
    LET mime_type == guess_type(file_path)
    IN  IF mime_type # ""
        THEN ~startswith(mime_type, "text/")
        ELSE IF open_exc(file_path, d) # ""
             THEN FALSE
             ELSE LET data  == d[file_path].data
                      chunk == SubSeq(data, 1, Min(ChunkSize, Len(data)))
                  IN  0 \in Range(chunk)

\* Variant of is_binary_file: line 12 without its "not"
is_binary_file_text_is_binary(file_path, d) ==
    LET mime_type == guess_type(file_path)
    IN  IF mime_type # ""
        THEN startswith(mime_type, "text/")
        ELSE IF open_exc(file_path, d) # ""
             THEN TRUE
             ELSE LET data  == d[file_path].data
                      chunk == SubSeq(data, 1, Min(ChunkSize, Len(data)))
                  IN  0 \in Range(chunk)

is_binary_file(file_path, d) ==
    LET mime_type == guess_type(file_path)
    IN  IF mime_type # ""
        THEN ~startswith(mime_type, "text/")
        ELSE IF open_exc(file_path, d) # ""
             THEN TRUE
             ELSE LET data  == d[file_path].data
                      chunk == SubSeq(data, 1, Min(ChunkSize, Len(data)))
                  IN  0 \in Range(chunk)

\* Length of the well-formed UTF-8 sequence starting at b[i], 0 when the
\* bytes there are not valid UTF-8.
IsCont(b, i) == i <= Len(b) /\ b[i] \in 128..191

utf8_len(b, i) ==
    IF b[i] < 128 THEN 1
    ELSE IF b[i] \in 194..223 /\ IsCont(b, i + 1) THEN 2
    ELSE IF /\ b[i] \in 224..239
            /\ IsCont(b, i + 1) /\ IsCont(b, i + 2)
            /\ (b[i] = 224 => b[i + 1] >= 160)
            /\ (b[i] = 237 => b[i + 1] <= 159) THEN 3
    ELSE IF /\ b[i] \in 240..244
            /\ IsCont(b, i + 1) /\ IsCont(b, i + 2) /\ IsCont(b, i + 3)
            /\ (b[i] = 240 => b[i + 1] >= 144)
            /\ (b[i] = 244 => b[i + 1] <= 143) THEN 4
    ELSE 0

RECURSIVE utf8_valid(_, _)
utf8_valid(b, i) ==
    IF i > Len(b) THEN TRUE
    ELSE utf8_len(b, i) # 0 /\ utf8_valid(b, i + utf8_len(b, i))

\* Text-mode read of valid UTF-8 (code points below 128 in the model):
\* decoding plus universal newlines, "\r\n" and "\r" becoming "\n".
RECURSIVE read_text(_, _)
read_text(b, i) ==
    IF i > Len(b) THEN ""
    ELSE IF b[i] = 13
         THEN "\n" \o read_text(b, IF i < Len(b) /\ b[i + 1] = 10
                                   THEN i + 2 ELSE i + 1)
    ELSE chr(b[i]) \o read_text(b, i + 1)

extract_file_content(file_path, d) ==
    IF is_binary_file(file_path, d)
    THEN "[Skipped binary file: " \o file_path \o "]"
    ELSE IF open_exc(file_path, d) # ""
    THEN "[Error reading file " \o file_path \o ": "
             \o strerror(file_path, d) \o "]"
    ELSE IF ~utf8_valid(d[file_path].data, 1)
    THEN "[Skipped: File " \o file_path \o " is not valid UTF-8 text]"
    ELSE read_text(d[file_path].data, 1)

(***************************************************************************)
(* dict: a sequence of <<key, value>> pairs in insertion order.            *)
(***************************************************************************)
Keys(dict) == {dict[i][1] : i \in 1..Len(dict)}

Values(dict) == [i \in 1..Len(dict) |-> dict[i][2]]

Get(dict, k) == dict[CHOOSE i \in 1..Len(dict) : dict[i][1] = k][2]

\* Variant of DictSet: dict.setdefault(k, v), the first value of a key stays
DictSet_setdefault(dict, k, v) ==
    IF k \in Keys(dict) THEN dict ELSE Append(dict, <<k, v>>)

\* dict[k] = v : an existing key keeps its position and takes the new value
DictSet(dict, k, v) ==
    IF k \in Keys(dict)
    THEN [i \in 1..Len(dict) |-> IF dict[i][1] = k THEN <<k, v>> ELSE dict[i]]
    ELSE Append(dict, <<k, v>>)

\* dict.update(other)
RECURSIVE DictUpdate(_, _)
DictUpdate(dict, other) ==
    IF other = <<>> THEN dict
    ELSE DictUpdate(DictSet(dict, other[1][1], other[1][2]), Tail(other))

\* sorted(): ascending, strings by code point and tuples component-wise
PairLess(a, b) == StrLess(a[1], b[1]) \/ (a[1] = b[1] /\ StrLess(a[2], b[2]))

RECURSIVE sorted_strs(_)
sorted_strs(S) ==
    IF S = {} THEN <<>>
    ELSE LET m == CHOOSE x \in S : \A y \in S \ {x} : StrLess(x, y)
         IN  <<m>> \o sorted_strs(S \ {m})

RECURSIVE sorted_pairs(_)
sorted_pairs(S) ==
    IF S = {} THEN <<>>
    ELSE LET m == CHOOSE x \in S : \A y \in S \ {x} : PairLess(x, y)
         IN  <<m>> \o sorted_pairs(S \ {m})

\* Variant of sorted_items: the items in insertion order, not sorted
items_unsorted(dict) == dict

sorted_items(dict) == sorted_pairs(Range(dict))

Reverse(q) == [i \in 1..Len(q) |-> q[Len(q) + 1 - i]]

(***************************************************************************)
(* os.path and os.walk on normalized absolute paths.                       *)
(***************************************************************************)
path_exists(path, d) == path \in DOMAIN d

path_join(root, file) == root \o "/" \o file

\* os.path.relpath(path, start) for a path below start
relpath(path, start) == SubSeq(path, Len(start) + 2, Len(path))

\* Names of the entries of directory dirpath
listdir(dirpath, d) ==
    {relpath(p, dirpath) :
        p \in {q \in DOMAIN d : /\ startswith(q, dirpath \o "/")
                                /\ find(q, "/", Len(dirpath) + 2) = 0}}

\* os.scandir yields the entries in an order the file system picks
ScanOrders == {"asc", "desc"}

scandir(dirpath, d, order) ==
    IF order = "asc" THEN sorted_strs(listdir(dirpath, d))
    ELSE Reverse(sorted_strs(listdir(dirpath, d)))

RECURSIVE walk(_, _, _, _, _, _)
RECURSIVE walk_dirs(_, _, _, _, _, _, _)
RECURSIVE walk_files(_, _, _, _, _)

\* lines 72-78: the loop over the files of one directory
walk_files(root, files, directory_path, ign, files_dict) ==
    IF files = <<>> THEN files_dict
    ELSE LET full_path == path_join(root, Head(files))
             rel_path  == relpath(full_path, directory_path)
             next      == IF rel_path \notin ign /\ ~should_ignore_path(rel_path)
                          THEN DictSet(files_dict, rel_path, full_path)
                          ELSE files_dict
         IN  walk_files(root, Tail(files), directory_path, ign, next)

\* os.walk descending into the directories left in dirs
walk_dirs(root, dirs, directory_path, ign, d, order, files_dict) ==
    IF dirs = <<>> THEN files_dict
    ELSE walk_dirs(root, Tail(dirs), directory_path, ign, d, order,
                   walk(path_join(root, Head(dirs)), directory_path, ign, d,
                        order, files_dict))

\* One iteration of "for root, dirs, files in os.walk(directory_path)" and
\* the iterations below it
walk(root, directory_path, ign, d, order, files_dict) ==
    LET entries  == scandir(root, d, order)
        IsDir(n) == d[path_join(root, n)].kind = "dir"
        IsFile(n) == ~IsDir(n)
        Kept(n)  == IsDir(n) /\ ~should_ignore_path(n)
        dirs     == SelectSeq(entries, Kept)
        files    == SelectSeq(entries, IsFile)
    IN  walk_dirs(root, dirs, directory_path, ign, d, order,
                  walk_files(root, files, directory_path, ign, files_dict))

get_files_from_directory(directory_path, ign, d, order) ==
    IF path_exists(directory_path, d) /\ d[directory_path].kind = "dir"
    THEN walk(directory_path, directory_path, ign, d, order, <<>>)
    ELSE <<>>

(***************************************************************************)
(* The script body, lines 81-134, run top to bottom on every interaction.  *)
(***************************************************************************)
\* Most uploads held by the uploader widget
MaxUploads == 2

\* Number of names tempfile can pick from; a run needs one unused name per
\* upload
MaxTemp == 2

gettempdir == "/tmp"

\* tempfile.NamedTemporaryFile picks a name that does not exist yet
TempName(k) == gettempdir \o "/tmp" \o chr(48 + k)

TempNames == {TempName(k) : k \in 0..(MaxTemp - 1)}

FreshTemp(d) ==
    TempName(CHOOSE k \in 0..(MaxTemp - 1) :
                /\ TempName(k) \notin DOMAIN d
                /\ \A j \in 0..(k - 1) : TempName(j) \in DOMAIN d)

Write(d, path, entry) ==
    [q \in DOMAIN d \cup {path} |-> IF q = path THEN entry ELSE d[q]]

Unlink(d, path) == [q \in DOMAIN d \ {path} |-> d[q]]

\* lines 89-94: every upload is copied to a new temporary file and entered
\* under its name
RECURSIVE upload_loop(_, _, _, _)
upload_loop(uploads, d, ftp, made) ==
    IF uploads = <<>>
    THEN [files_to_process |-> ftp, disk |-> d, created |-> made]
    ELSE LET uploaded_file == Head(uploads)
             tmp_name      == FreshTemp(d)
         IN  upload_loop(Tail(uploads),
                         Write(d, tmp_name, File(uploaded_file.data)),
                         DictSet(ftp, uploaded_file.name, tmp_name),
                         made \cup {tmp_name})

\* lines 96-97
directory_files(dir, d, order) ==
    IF dir # "" /\ path_exists(dir, d)
    THEN get_files_from_directory(dir, {}, d, order)
    ELSE <<>>

\* st.checkbox(file_name, value=True, key=file_name): the widget's value in
\* the session, True for a widget the previous run did not show
checkbox(file_name, chk) ==
    IF file_name \in DOMAIN chk THEN chk[file_name] ELSE TRUE

\* Variant of checkbox_loop: the test of line 106 without its "not"
checkbox_loop_inverted(ftp, chk) == {n \in Keys(ftp) : checkbox(n, chk)}

\* lines 102-107
checkbox_loop(ftp, chk) == {n \in Keys(ftp) : ~checkbox(n, chk)}

Header(file_name) ==
    "==================== " \o file_name \o " ====================\n"

\* lines 113-117
RECURSIVE generate(_, _, _, _)
generate(items, ign, d, content) ==
    IF items = <<>> THEN content
    ELSE LET file_name == Head(items)[1]
             file_path == Head(items)[2]
         IN  generate(Tail(items), ign, d,
                 IF file_name \notin ign
                 THEN content \o <<Header(file_name),
                          extract_file_content(file_path, d) \o "\n\n">>
                 ELSE content)

\* lines 129-134
RECURSIVE cleanup(_, _, _, _)
cleanup(paths, d, gone, errs) ==
    IF paths = <<>> THEN [disk |-> d, unlinked |-> gone, errors |-> errs]
    ELSE LET path == Head(paths)
         IN  IF startswith(path, gettempdir)
             THEN IF path \in DOMAIN d /\ d[path].kind = "file"
                  THEN cleanup(Tail(paths), Unlink(d, path),
                               gone \cup {path}, errs)
                  ELSE cleanup(Tail(paths), d, gone,
                           Append(errs, "Error cleaning up temporary file: "
                                            \o strerror(path, d)))
             ELSE cleanup(Tail(paths), d, gone, errs)

\* One run of the script with the widget values uploads, dir, chk and
\* clicked (the button was pressed), on disk d
script_run(uploads, dir, chk, clicked, d, order) ==
    LET up    == upload_loop(uploads, d, <<>>, {})
        found == directory_files(dir, up.disk, order)
        ftp   == DictUpdate(up.files_to_process, found)
        ign   == checkbox_loop(ftp, chk)
        press == ftp # <<>> /\ clicked
        cc    == IF press THEN generate(sorted_items(ftp), ign, up.disk, <<>>)
                 ELSE <<>>
        cl    == cleanup(Values(ftp), up.disk, {}, <<>>)
    IN  [files_to_process |-> ftp,
         dir_files        |-> found,
         ignore_list      |-> ign,
         checked          |-> [n \in Keys(ftp) |-> checkbox(n, chk)],
         button           |-> press,
         combined_content |-> cc,
         final_content    |-> join_str("\n", cc),
         created          |-> up.created,
         unlinked         |-> cl.unlinked,
         errors           |-> cl.errors,
         disk             |-> cl.disk]

(***************************************************************************)
(* The modelled machine: file contents, the directories the user can name  *)
(* and the files the user can upload.                                      *)
(***************************************************************************)
Hello     == <<104, 101, 108, 108, 111>>      \* b"hello"
Bye       == <<98, 121, 101>>                 \* b"bye"
HiCrLf    == <<104, 105, 13, 10>>             \* b"hi\r\n"
BinNull   == <<137, 0, 255>>                  \* a NUL byte, not UTF-8
BinNoNull == <<255, 254, 65>>                 \* no NUL byte, not UTF-8

DiskOf(pairs) ==
    [q \in {pairs[i][1] : i \in 1..Len(pairs)} |->
        pairs[CHOOSE i \in 1..Len(pairs) : pairs[i][1] = q][2]]

InitialDisk == DiskOf(<<
    <<"/tmp", Dir>>,
    <<"/tmp/work", Dir>>,
    <<"/tmp/work/a.txt", File(Bye)>>,
    <<"/tmp/work/notes", File(HiCrLf)>>,
    <<"/home", Dir>>,
    <<"/home/u", Dir>>,
    <<"/home/u/pair", Dir>>,
    <<"/home/u/pair/a.txt", File(Hello)>>,
    <<"/home/u/pair/b.bin", File(BinNull)>>,
    <<"/srv", Dir>>,
    <<"/srv/repo", Dir>>,
    <<"/srv/repo/a.txt", File(Hello)>>,
    <<"/srv/repo/b.bin", File(BinNull)>>,
    <<"/srv/repo/doc.pdf", File(Hello)>>,
    <<"/srv/repo/data.pkl", File(Hello)>>,
    <<"/srv/repo/cache.db", File(Bye)>>,
    <<"/srv/repo/dump.dat", File(BinNull)>>,
    <<"/srv/repo/old.tar.gz", File(BinNull)>>,
    <<"/srv/repo/PHOTO.PNG", File(Hello)>>,
    <<"/srv/repo/notes", File(HiCrLf)>>,
    <<"/srv/repo/blob", File(BinNull)>>,
    <<"/srv/repo/raw", File(BinNoNull)>>,
    <<"/srv/repo/raw.txt", File(BinNoNull)>>,
    <<"/srv/repo/nul.txt", File(BinNull)>>,
    <<"/srv/repo/locked", Locked(Hello)>>,
    <<"/srv/repo/locked.txt", Locked(Hello)>>,
    <<"/srv/repo/.DS_Store", File(BinNull)>>,
    <<"/srv/repo/.gitignore", File(Bye)>>,
    <<"/srv/repo/.git", Dir>>,
    <<"/srv/repo/.git/config", File(Hello)>>,
    <<"/srv/repo/node_modules", Dir>>,
    <<"/srv/repo/node_modules/readme.md", File(Hello)>>,
    <<"/srv/repo/src", Dir>>,
    <<"/srv/repo/src/main.go", File(Hello)>>,
    <<"/srv/repo/pkg", Dir>>,
    <<"/srv/repo/pkg/util.py", File(Bye)>>,
    <<"/srv/repo/pkg/node_modules", Dir>>,
    <<"/srv/repo/pkg/node_modules/readme.md", File(Hello)>>,
    <<"/srv/repo/pkg/__pycache__", Dir>>,
    <<"/srv/repo/pkg/__pycache__/util.txt", File(Bye)>>,
    <<"/srv/repo/pkg/build.log", Dir>>,
    <<"/srv/repo/pkg/build.log/out.md", File(Bye)>> >>)

\* Values the user can type into the directory text input
DirInputs == {"", "/home/u/pair", "/tmp/work", "/nonexistent"}

\* Files the user can drop on the uploader
Uploads == {[name |-> "a.txt", data |-> Hello],
            [name |-> "b.bin", data |-> BinNull],
            [name |-> "a.txt", data |-> HiCrLf]}

NoCall == [fn |-> "none", arg |-> "", result |-> ""]

Init ==
    /\ disk = InitialDisk
    /\ uploaded_files = <<>>
    /\ uploaded_dir = ""
    /\ checked = <<>>
    /\ button = FALSE
    /\ dir_files = <<>>
    /\ files_to_process = <<>>
    /\ ignore_list = {}
    /\ combined_content = <<>>
    /\ final_content = ""
    /\ created = {}
    /\ unlinked = {}
    /\ errors = <<>>
    /\ call = NoCall

\* Streamlit reruns the script after every interaction
Rerun(uploads, dir, chk, clicked) ==
    /\ Cardinality(TempNames \ DOMAIN disk) >= Len(uploads)
    /\ \E order \in ScanOrders :
         \E r \in {script_run(uploads, dir, chk, clicked, disk, order)} :
             /\ uploaded_files' = uploads
             /\ dir_files' = r.dir_files
             /\ uploaded_dir' = dir
             /\ checked' = r.checked
             /\ button' = r.button
             /\ files_to_process' = r.files_to_process
             /\ ignore_list' = r.ignore_list
             /\ combined_content' = r.combined_content
             /\ final_content' = r.final_content
             /\ created' = r.created
             /\ unlinked' = r.unlinked
             /\ errors' = r.errors
             /\ disk' = r.disk
             /\ UNCHANGED call

\* The user adds a file to the uploader
AddUpload ==
    /\ Len(uploaded_files) < MaxUploads
    /\ \E f \in Uploads :
         Rerun(Append(uploaded_files, f), uploaded_dir, checked, FALSE)

\* The user removes a file from the uploader
RemoveUpload ==
    \E i \in 1..Len(uploaded_files) :
        Rerun(SubSeq(uploaded_files, 1, i - 1)
                 \o SubSeq(uploaded_files, i + 1, Len(uploaded_files)),
              uploaded_dir, checked, FALSE)

\* The user types a directory path
EnterDirectory ==
    \E dir \in DirInputs \ {uploaded_dir} :
        Rerun(uploaded_files, dir, checked, FALSE)

\* The user checks or unchecks the box of a listed file
ToggleCheckbox ==
    \E n \in DOMAIN checked :
        Rerun(uploaded_files, uploaded_dir,
              [checked EXCEPT ![n] = ~checked[n]], FALSE)

\* The user presses "Generate Combined Text File"
ClickGenerate ==
    /\ files_to_process # <<>>
    /\ Rerun(uploaded_files, uploaded_dir, checked, TRUE)

Next ==
    \/ AddUpload
    \/ RemoveUpload
    \/ EnterDirectory
    \/ ToggleCheckbox
    \/ ClickGenerate

Spec == Init /\ [][Next]_vars

(***************************************************************************)
(* The functions of lines 7-79 called on their own, one call at a time:    *)
(* call records the function, its argument and what it returned.           *)
(***************************************************************************)
appvars == <<disk, uploaded_files, uploaded_dir, checked, button, dir_files,
             files_to_process, ignore_list, combined_content, final_content,
             created, unlinked, errors>>

\* A name matching the glob pat: every "*" replaced by the letter f
RECURSIVE Example(_)
Example(pat) ==
    IF pat = "" THEN ""
    ELSE (IF At(pat, 1) = "*" THEN "f" ELSE At(pat, 1))
             \o Example(SubSeq(pat, 2, Len(pat)))

written_patterns == development_patterns \o binary_patterns

\* Relative paths and bare names given to should_ignore_path
IgnoreProbes ==
    {Example(written_patterns[k]) : k \in 1..Len(written_patterns)}
        \cup {"src/main.go", "readme.md", "a.txt", "node_modules", ".git",
              "pkg/node_modules/readme.md", "environment/x.py",
              ".DS_Storex.pdf", "f.pdfx", "build.log", "a.pdf/b.md"}

\* Paths given to is_binary_file and extract_file_content: every path of
\* /srv/repo, a missing file per binary extension, and other missing files
FileProbes ==
    {q \in DOMAIN InitialDisk : startswith(q, "/srv/repo")}
        \cup {"/srv/repo/" \o Example(binary_patterns[k]) :
                 k \in 1..Len(binary_patterns)}
        \cup {"/srv/repo/missing.txt", "/srv/repo/missing",
              "/srv/repo/MISSING.CSV"}

\* Directory paths given to get_files_from_directory
WalkProbes == {"/srv/repo", "/srv/repo/pkg", "/home/u/pair", "/tmp/work",
               "/srv/repo/a.txt", "/nonexistent"}

CallShouldIgnorePath ==
    /\ call = NoCall
    /\ \E path \in IgnoreProbes :
         call' = [fn |-> "should_ignore_path", arg |-> path,
                  result |-> should_ignore_path(path)]
    /\ UNCHANGED appvars

CallIsBinaryFile ==
    /\ call = NoCall
    /\ \E file_path \in FileProbes :
         call' = [fn |-> "is_binary_file", arg |-> file_path,
                  result |-> is_binary_file(file_path, disk)]
    /\ UNCHANGED appvars

CallExtractFileContent ==
    /\ call = NoCall
    /\ \E file_path \in FileProbes :
         call' = [fn |-> "extract_file_content", arg |-> file_path,
                  result |-> extract_file_content(file_path, disk)]
    /\ UNCHANGED appvars

CallGetFilesFromDirectory ==
    /\ call = NoCall
    /\ \E directory_path \in WalkProbes, order \in ScanOrders :
         call' = [fn |-> "get_files_from_directory", arg |-> directory_path,
                  result |-> get_files_from_directory(directory_path, {},
                                                      disk, order)]
    /\ UNCHANGED appvars

\* The caller takes the result; the next call can start
Return ==
    /\ call # NoCall
    /\ call' = NoCall
    /\ UNCHANGED appvars

NextFn ==
    \/ Return
    \/ CallShouldIgnorePath
    \/ CallIsBinaryFile
    \/ CallExtractFileContent
    \/ CallGetFilesFromDirectory

SpecFn == Init /\ [][NextFn]_vars

(***************************************************************************)
(* Properties                                                              *)
(***************************************************************************)
\* sub in s
Contains(s, sub) ==
    \E i \in 1..(Len(s) - Len(sub) + 1) : SubSeq(s, i, i + Len(sub) - 1) = sub

\* rel.split("/")
RECURSIVE split_path(_)
split_path(rel) ==
    LET i == find(rel, "/", 1)
    IN  IF i = 0 THEN <<rel>>
        ELSE <<SubSeq(rel, 1, i - 1)>> \o split_path(SubSeq(rel, i + 1, Len(rel)))

IgnoredDirs == {"env", ".env", "venv", ".venv", ".git", "__pycache__",
                ".pytest_cache", "node_modules", ".npm", ".cache"}

UploadNames == {uploaded_files[i].name : i \in 1..Len(uploaded_files)}

LastUpload(n) ==
    uploaded_files[CHOOSE i \in 1..Len(uploaded_files) :
        /\ uploaded_files[i].name = n
        /\ \A j \in (i + 1)..Len(uploaded_files) : uploaded_files[j].name # n]

\* The names of the blocks of the output, in output order
BlockNames ==
    [i \in 1..(Len(combined_content) \div 2) |->
        CHOOSE n \in Keys(files_to_process) :
            combined_content[2 * i - 1] = Header(n)]

\* The content element of the block of file n
BlockOf(n) ==
    combined_content[1 + CHOOSE i \in 1..Len(combined_content) :
                             combined_content[i] = Header(n)]

\* C1: after every script run in which unlink did not fail, no temporary
\* file written by the upload loop of that run is still on disk.
C1_NoTempFileRemains ==
    errors = <<>> => created \cap DOMAIN disk = {}

\* C2: get_files_from_directory returns no file whose relative path passes
\* through a directory named env, .env, venv, .venv, .git, __pycache__,
\* .pytest_cache, node_modules, .npm or .cache, at any depth.
C2_NoIgnoredSegment ==
    call.fn = "get_files_from_directory" =>
        \A i \in 1..Len(call.result) :
            LET segs == split_path(call.result[i][1])
            IN  \A j \in 1..(Len(segs) - 1) : segs[j] \notin IgnoredDirs

\* a.txt ("hello") and b.bin (binary) are what the user supplied, as two
\* uploads or as the content of the directory
SuppliedPair ==
    \/ /\ uploaded_dir \in {"", "/nonexistent"}
       /\ Len(uploaded_files) = 2
       /\ Range(uploaded_files) = {[name |-> "a.txt", data |-> Hello],
                                   [name |-> "b.bin", data |-> BinNull]}
    \/ /\ uploaded_dir = "/home/u/pair"
       /\ uploaded_files = <<>>

\* C3: with a.txt ("hello") and b.bin (binary) supplied, generate yields
\* exactly the two blocks a.txt, b.bin in this order, the first holding
\* "hello" and the second a skipped-binary placeholder naming b.bin.
C3_TwoBlocks ==
    (button /\ SuppliedPair /\ ignore_list = {}) =>
        /\ Len(combined_content) = 4
        /\ combined_content[1] = Header("a.txt")
        /\ Contains(combined_content[2], "hello")
        /\ combined_content[3] = Header("b.bin")
        /\ startswith(combined_content[4], "[Skipped binary file: ")
        /\ Contains(combined_content[4], "b.bin")

\* C4: every generated output has a block for a listed file exactly when the
\* file's checkbox is checked in that run, and nothing else: unchecking a
\* file removes its delimiter and content, re-checking it brings them back,
\* and the other files' blocks stay.
C4_BlockIffChecked ==
    button =>
        /\ \A n \in DOMAIN checked :
              (Header(n) \in Range(combined_content)) <=> checked[n]
        /\ Len(combined_content)
              = 2 * Cardinality({n \in DOMAIN checked : checked[n]})

C4_Witness ==
    /\ button
    /\ \E n, m \in DOMAIN checked :
          /\ checked[n] /\ Header(n) \in Range(combined_content)
          /\ ~checked[m] /\ Header(m) \notin Range(combined_content)

\* C5: in every generated output each included name has exactly one block
\* and the blocks are in strictly increasing order of their names, whatever
\* the order of upload or of the directory walk.
C5_SortedBlocks ==
    button =>
        LET included == Keys(files_to_process) \ ignore_list
            k        == Len(combined_content) \div 2
        IN  /\ Len(combined_content) = 2 * Cardinality(included)
            /\ \A i \in 1..k :
                  \E n \in included : combined_content[2 * i - 1] = Header(n)
            /\ \A n \in included :
                  Cardinality({i \in 1..k :
                                  combined_content[2 * i - 1] = Header(n)}) = 1
            /\ \A i, j \in 1..k :
                  i < j => StrLess(BlockNames[i], BlockNames[j])

C5_Witness ==
    /\ button
    /\ Len(combined_content) = 4
    /\ files_to_process[1][1] = "b.bin"
    /\ combined_content[1] = Header("a.txt")
    /\ combined_content[3] = Header("b.bin")

\* What the block of an uploaded file with these bytes holds: the temporary
\* copy has no extension, so the bytes decide
UploadBlockOk(block, data) ==
    IF 0 \in Range(data) THEN startswith(block, "[Skipped binary file: ")
    ELSE IF ~utf8_valid(data, 1) THEN startswith(block, "[Skipped: File ")
    ELSE block = read_text(data, 1) \o "\n\n"

C10_DirectoryFilesKept ==
    /\ \A i \in 1..Len(dir_files) : dir_files[i][2] \notin unlinked
    /\ \A q \in DOMAIN InitialDisk : q \in DOMAIN disk

\* C6 as stated: is_binary_file returns true for every path that cannot be
\* opened or read, whatever its name.
C6_UnreadableIsBinary ==
    (call.fn = "is_binary_file" /\ open_exc(call.arg, disk) # "") =>
        call.result = TRUE

\* C6 amended: is_binary_file returns a boolean and never raises; for a path
\* that cannot be opened or read it returns true unless the name guesses a
\* text/ content type, and then it returns false.
C6_UnreadableIsBinaryUnlessTextType ==
    (call.fn = "is_binary_file" /\ open_exc(call.arg, disk) # "") =>
        /\ call.result \in BOOLEAN
        /\ call.result = ~startswith(guess_type(call.arg), "text/")

C6_Witness ==
    /\ call.fn = "is_binary_file"
    /\ call.arg = "/srv/repo/missing"
    /\ open_exc(call.arg, disk) = "FileNotFoundError"
    /\ call.result = TRUE

HasBinaryExtension(path) ==
    \E k \in 1..Len(binary_patterns) : fnmatch(path, binary_patterns[k])

C7_FlatPatternList ==
    call.fn = "should_ignore_path" =>
        call.result =
            (\E k \in 1..Len(written_patterns) :
                 fnmatch(call.arg, written_patterns[k]))

====
